---- MODULE Spec2Model ----
(***************************************************************************)
(* A model of mlo/problem.py: ProblemData, OptimizationProblem.solve,      *)
(* solve_parametric, solve_with_strategy, eq_ineq and infeasibility.       *)
(*                                                                         *)
(* numpy arrays are sequences; a 0-based index k of the source is the      *)
(* element k+1 of the sequence.  A matrix is the sequence of its rows.     *)
(* Real numbers are restricted to integers; quotients are kept as exact    *)
(* fractions.                                                              *)
(***************************************************************************)
EXTENDS Integers, Sequences, FiniteSets, TLC

VARIABLES
    data,    \* OptimizationProblem.data, the ProblemData the problem owns
    out,     \* what the last call of solve did (returned value or raise)
    sws,     \* what the last call of solve_with_strategy did
    par,     \* the frame of solve_parametric: theta, n, i, x, time, strategy
    metric   \* what the last call of eq_ineq / infeasibility did

vars == <<data, out, sws, par, metric>>

----------------------------------------------------------------------------
(* Bounds of the model *)

\* the table handed to solve_parametric has at most MaxRows rows
MaxRows == 2

\* values a parameter (an entry of a row of theta) takes
ThetaVals == {0, 1}
\* values the adapter reports for a variable (binary variables)
XVals == {0, 1}
\* values a predicted strategy gives an integer variable
IntVals == {-1, 0, 1, 2}
\* run times the adapter reports
Times == {1, 2}
Trits == {-1, 0, 1}

----------------------------------------------------------------------------
(* Vectors *)

RECURSIVE SumTo(_, _)
SumTo(f, k) == IF k = 0 THEN 0 ELSE f[k] + SumTo(f, k - 1)

\* numpy dot of two vectors of the same length
Dot(a, b) == SumTo([k \in 1..Len(a) |-> a[k] * b[k]], Len(a))

Abs(v) == IF v < 0 THEN -v ELSE v
Max(a, b) == IF a >= b THEN a ELSE b

\* min / max of a non-empty vector
np_max(v) == CHOOSE e \in {v[k] : k \in 1..Len(v)} : \A k \in 1..Len(v) : v[k] <= e
np_min(v) == CHOOSE e \in {v[k] : k \in 1..Len(v)} : \A k \in 1..Len(v) : v[k] >= e

\* row j (0-based) of the n x n identity
EyeRow(n, j) == [k \in 1..n |-> IF k = j + 1 THEN 1 ELSE 0]

\* v[idx] for an index vector idx (0-based indices)
Take(v, idx) == [k \in 1..Len(idx) |-> v[idx[k] + 1]]

----------------------------------------------------------------------------
(* ProblemData *)

ProblemData(c, l, A, u, int_idx) ==
    [c |-> c, l |-> l, A |-> A, u |-> u, int_idx |-> int_idx]

is_mip(d) == Len(d.int_idx) > 0

\* number of variables and of rows
NVar(d) == Len(d.c)
NRow(d) == Len(d.A)

----------------------------------------------------------------------------
(* The collaborators that are outside problem.py *)

\* statuses of the adapter and the subset with a solution
Statuses == {"SOLVED", "INFEASIBLE", "ERROR"}
SOLUTION_PRESENT == {"SOLVED"}

\* Strategy(int_vars, active_constraints)
Strategy(int_vars, active_constraints) ==
    [int_vars |-> int_vars, active_constraints |-> active_constraints]

\* activity of row k at xv: +1 upper bound tight, -1 lower bound tight, 0 slack
Activity(d, xv) ==
    [k \in 1..NRow(d) |->
        IF Dot(d.A[k], xv) = d.u[k] THEN 1
        ELSE IF Dot(d.A[k], xv) = d.l[k] THEN -1 ELSE 0]

\* the binary vectors that satisfy l <= A.x <= u
Feasible(d) ==
    {xv \in [1..NVar(d) -> XVals] :
        \A k \in 1..NRow(d) :
            /\ d.l[k] <= Dot(d.A[k], xv)
            /\ Dot(d.A[k], xv) <= d.u[k]}

\* what SOLVER_MAP[solver](settings).solve(d) may report: any status; with a
\* solution, a feasible vector, the activity of d's rows at it and any run
\* time; without one (which a solver may report on any instance: a time limit,
\* a numerical failure), x and active_constraints carry nothing.
SolverResults(d) ==
    {[status |-> "SOLVED", x |-> xv, run_time |-> t,
      active_constraints |-> Activity(d, xv)] :
        xv \in Feasible(d), t \in Times}
    \cup
    {[status |-> s, x |-> <<>>, run_time |-> t, active_constraints |-> <<>>] :
        s \in Statuses \ SOLUTION_PRESENT, t \in Times}

\* the fixed structure of the problem family: 2 variables, 2 rows
\*   row 0:  x0 + x1,   row 1:  x0
BaseA == <<<<1, 1>>, <<1, 0>>>>

\* populate(row): rewrites cost and bounds of the owned ProblemData in place
\* from the parameter; matrix and integer indices are the problem's structure
populate(d, row) ==
    [d EXCEPT !.c = <<1, row>>,
              !.l = <<row, 0>>,
              !.u = <<row + 1, 1>>]

\* the integer index sets of the problems considered
IntIdxChoices == {<<>>, <<0>>, <<1, 0>>}

Instances ==
    {populate(ProblemData(<<0, 0>>, <<0, 0>>, BaseA, <<0, 0>>, ii), p) :
        ii \in IntIdxChoices, p \in ThetaVals}

----------------------------------------------------------------------------
(* OptimizationProblem.solve *)

NoStrategy == Strategy(<<>>, <<>>)

Raise(error, line, d, calls) ==
    [kind |-> "raise", error |-> error, line |-> line, x |-> <<>>, time |-> 0,
     strategy |-> NoStrategy, data |-> d, calls |-> calls]

Return(xv, t, s, d, calls) ==
    [kind |-> "return", error |-> "", line |-> 0, x |-> xv, time |-> t,
     strategy |-> s, data |-> d, calls |-> calls]

\* lines 138-145: the continuous restriction at x_int
data_cont(d, x_int) ==
    ProblemData(d.c,
                d.l \o x_int,
                d.A \o [k \in 1..Len(d.int_idx) |-> EyeRow(NVar(d), d.int_idx[k])],
                d.u \o x_int,
                <<>>)

\* the instance of the second adapter call, given the first result
ContInstance(d, results) == data_cont(d, Take(results.x, d.int_idx))

\* a call is recorded as the instance handed to the adapter and its result
Call(d, results) == [data |-> d, results |-> results]

\* solve with a mutation: x and time come from the restriction's solve
solve_from_cont(d, results, results_cont, diag) ==
    IF results.status \notin SOLUTION_PRESENT
    THEN Raise(IF diag THEN "ValueError" ELSE "DiagnosticError", 128, d,
               <<Call(d, results)>>)
    ELSE IF is_mip(d)
         THEN Return(results_cont.x, results_cont.run_time,
                     Strategy(Take(results.x, d.int_idx),
                              results_cont.active_constraints),
                     d,
                     <<Call(d, results), Call(ContInstance(d, results), results_cont)>>)
         ELSE Return(results.x, results.run_time,
                     Strategy(<<>>, results.active_constraints), d,
                     <<Call(d, results)>>)

\* lines 95-158.  results is the adapter's answer for d, results_cont its
\* answer for the continuous restriction (read only when d is mixed-integer),
\* diag tells whether the cvxpy cross-check of lines 122-127 ran through (the
\* ValueError of line 128 is raised) or raised an error of its own.
solve(d, results, results_cont, diag) ==
    IF results.status \notin SOLUTION_PRESENT
    THEN Raise(IF diag THEN "ValueError" ELSE "DiagnosticError", 128, d,
               <<Call(d, results)>>)
    ELSE LET x_opt == results.x
             t     == results.run_time
         IN  IF is_mip(d)
             THEN LET x_int == Take(results.x, d.int_idx)
                      active_constraints == results_cont.active_constraints
                  IN  Return(x_opt, t, Strategy(x_int, active_constraints), d,
                             <<Call(d, results),
                               Call(data_cont(d, x_int), results_cont)>>)
             ELSE Return(x_opt, t, Strategy(<<>>, results.active_constraints), d,
                         <<Call(d, results)>>)

\* every way a call of solve on d can end
SolveOutcomes(d) ==
    UNION {
        IF results.status \in SOLUTION_PRESENT /\ is_mip(d)
        THEN {solve(d, results, rc, TRUE) :
                rc \in SolverResults(ContInstance(d, results))}
        ELSE {solve(d, results, results, diag) : diag \in BOOLEAN}
        : results \in SolverResults(d)}

NoOut == [kind |-> "none", error |-> "", line |-> 0, x |-> <<>>, time |-> 0,
          strategy |-> NoStrategy, data |-> ProblemData(<<>>, <<>>, <<>>, <<>>, <<>>),
          calls |-> <<>>]

----------------------------------------------------------------------------
(* OptimizationProblem.solve_with_strategy *)

\* np.where(v == val): the 0-based positions of val in v, ascending
RECURSIVE np_where(_, _, _)
np_where(v, val, k) ==
    IF k > Len(v) THEN <<>>
    ELSE (IF v[k] = val THEN <<k - 1>> ELSE <<>>) \o np_where(v, val, k + 1)

\* np.vstack of 1-D arrays: each becomes one row, and the rows must have the
\* same number of columns (ValueError otherwise)
np_vstack_ok(arrays) ==
    \A a, b \in 1..Len(arrays) : Len(arrays[a]) = Len(arrays[b])

NoProblem == ProblemData(<<>>, <<>>, <<>>, <<>>, <<>>)

SwsRaise(error, line, d, strategy) ==
    [kind |-> "raise", error |-> error, line |-> line, strategy |-> strategy,
     data |-> d, handed |-> FALSE, problem |-> NoProblem, x |-> <<>>, time |-> 0]

SwsSolved(o, d, strategy, problem) ==
    [kind |-> o.kind, error |-> o.error, line |-> IF o.kind = "raise" THEN 252 ELSE 0,
     strategy |-> strategy, data |-> d, handed |-> TRUE, problem |-> problem,
     x |-> o.x, time |-> o.time]

\* the scipy builds the code may run on.  Indexing a sparse matrix by
\* (tuple-of-array, slice), as line 240 does with the tuple np.where returns,
\* raises IndexError ("index results in >2 dimensions") on a build with the
\* unified sparse indexing and selects the rows on an older one.
Builds == {"modern", "legacy"}

\* lines 219-254.  build is the scipy build, results and diag the adapter's
\* answer and the cross-check's fate should the reduced problem be solved.
solve_with_strategy(d, strategy, build, results, diag) ==
    LET c == d.c
        l == d.l
        A == d.A
        u == d.u
        int_idx == strategy.int_vars                \* line 220
        active_constr == strategy.active_constraints
        n_var == Len(c)
    IN
    IF is_mip(d) /\ ~(np_max(strategy.int_vars) <= Len(d.l))
    THEN SwsRaise("AssertionError", 223, d, strategy)
    ELSE IF is_mip(d) /\ ~(np_min(strategy.int_vars) >= 0)
    THEN SwsRaise("AssertionError", 224, d, strategy)
    ELSE IF is_mip(d)
    THEN \* line 234: spa.eye(n_var) is a dia_matrix, which has no __getitem__
         SwsRaise("TypeError", 234, d, strategy)
    ELSE IF build = "modern"
    THEN SwsRaise("IndexError", 240, d, strategy)
    ELSE
    LET active_constraints_upper == np_where(active_constr, 1, 1)
        active_constraints_lower == np_where(active_constr, -1, 1)
        A_upper == Take(A, active_constraints_upper)
        u_upper == Take(u, active_constraints_upper)
        A_lower == Take(A, active_constraints_lower)
        l_lower == Take(l, active_constraints_lower)
        A_red == A_lower \o A_upper
        \* line 230: bound_red starts as the empty 1-D array
        stacked == <<(<<>>), l_lower, u_upper>>
    IN
    IF ~np_vstack_ok(stacked)
    THEN SwsRaise("ValueError", 245, d, strategy)
    ELSE LET bound_red == stacked
             problem == ProblemData(c, bound_red, A_red, bound_red, <<>>)
         IN  SwsSolved(solve(problem, results, results, diag), d, strategy, problem)

\* a result standing for "the adapter has not been asked"
NotAsked == [status |-> "ERROR", x |-> <<>>, run_time |-> 1, active_constraints |-> <<>>]

\* every way a call of solve_with_strategy(strategy) on d can end: the adapter
\* answers only when the reduced problem reaches it
SwsOutcomes(d, strategy) ==
    UNION {
        LET probe == solve_with_strategy(d, strategy, build, NotAsked, TRUE)
        IN  IF probe.handed
            THEN {solve_with_strategy(d, strategy, build, results, diag) :
                    results \in SolverResults(probe.problem), diag \in BOOLEAN}
            ELSE {probe}
        : build \in Builds}

NoSws == [kind |-> "none", error |-> "", line |-> 0, strategy |-> NoStrategy,
          data |-> NoProblem, handed |-> FALSE, problem |-> NoProblem,
          x |-> <<>>, time |-> 0]

\* strategies a learner may predict for an instance of d's shape
Predicted(d) ==
    {Strategy(iv, ac) : iv \in [1..Len(d.int_idx) -> IntVals],
                        ac \in [1..NRow(d) -> Trits]}

----------------------------------------------------------------------------
(* The calls a client makes on one OptimizationProblem *)

NoPar == [pc |-> "idle", theta |-> <<>>, n |-> 0, i |-> 0,
          x |-> <<>>, time |-> <<>>, strategy |-> <<>>, log |-> <<>>]
NoMetric == [op |-> "none", kind |-> "none", error |-> "", x |-> <<>>,
             eq |-> {}, ineq |-> {}, sq |-> <<0, 1>>]

Init ==
    /\ data \in Instances
    /\ out = NoOut
    /\ sws = NoSws
    /\ par = NoPar
    /\ metric = NoMetric

\* out and sws are what the client holds of its last calls: a new solve
\* drops the earlier re-solve, and a client grading a predicted strategy holds
\* no solve result.

\* problem.populate(row)
Populate ==
    /\ \E row \in ThetaVals : data' = populate(data, row)
    /\ UNCHANGED <<out, sws, par, metric>>

\* problem.solve()
Solve ==
    /\ out' \in SolveOutcomes(data)
    /\ sws' = NoSws
    /\ UNCHANGED <<data, par, metric>>

\* problem.solve_with_strategy(strategy) with the strategy the last solve
\* returned
SolveWithStrategy ==
    /\ out.kind = "return"
    /\ sws' \in SwsOutcomes(data, out.strategy)
    /\ UNCHANGED <<data, out, par, metric>>

\* problem.solve_with_strategy(strategy) with a predicted strategy
SolveWithPredicted ==
    /\ \E strategy \in Predicted(data) : sws' \in SwsOutcomes(data, strategy)
    /\ out' = NoOut
    /\ UNCHANGED <<data, par, metric>>

Next == Populate \/ Solve \/ SolveWithStrategy \/ SolveWithPredicted

Spec == Init /\ [][Next]_vars

----------------------------------------------------------------------------
(* OptimizationProblem.solve_parametric *)

\* the parameter tables: up to MaxRows rows, one parameter each
Tables == UNION {[1..k -> ThetaVals] : k \in 0..MaxRows}

\* theta.iloc[i, :] with a mutation: always the first row
iloc_first(th, k) == th[1]

\* theta.iloc[i, :]
iloc(th, k) == th[k + 1]

\* lst[k] = v
setitem(lst, k, v) == [lst EXCEPT ![k + 1] = v]

\* what the frame's log keeps of a solve: the instance solved and the result
LogEntry(o) == [data |-> o.data, kind |-> o.kind, x |-> o.x, time |-> o.time,
                strategy |-> o.strategy]

\* lines 184-189: n = len(theta) and the preallocated lists
ParStart ==
    /\ par.pc # "loop"
    /\ \E th \in Tables :
          par' = [pc |-> "loop", theta |-> th, n |-> Len(th), i |-> 0,
                  x |-> [k \in 1..Len(th) |-> <<>>],
                  time |-> [k \in 1..Len(th) |-> 0],
                  strategy |-> [k \in 1..Len(th) |-> NoStrategy],
                  log |-> <<>>]
    /\ UNCHANGED <<data, out, sws, metric>>

\* lines 191-193: one pass of the loop, populate then solve; a raise of
\* solve leaves the loop and the function
ParIter ==
    /\ par.pc = "loop"
    /\ par.i < par.n
    /\ LET d == populate(data, iloc(par.theta, par.i))
       IN  /\ data' = d
           /\ \E o \in SolveOutcomes(d) :
                 IF o.kind = "raise"
                 THEN par' = [par EXCEPT !.pc = "raised",
                                         !.log = Append(par.log, LogEntry(o))]
                 ELSE par' = [par EXCEPT
                                 !.x = setitem(par.x, par.i, o.x),
                                 !.time = setitem(par.time, par.i, o.time),
                                 !.strategy = setitem(par.strategy, par.i, o.strategy),
                                 !.i = par.i + 1,
                                 !.log = Append(par.log, LogEntry(o))]
    /\ UNCHANGED <<out, sws, metric>>

\* line 195: return x, time, strategy
ParReturn ==
    /\ par.pc = "loop"
    /\ par.i = par.n
    /\ par' = [par EXCEPT !.pc = "returned"]
    /\ UNCHANGED <<data, out, sws, metric>>

NextParametric == ParStart \/ ParIter \/ ParReturn

SpecParametric == Init /\ [][NextParametric]_vars

----------------------------------------------------------------------------
(* ProblemData.eq_ineq and OptimizationProblem.infeasibility *)

\* constants.TOL.  The numbers of the model are integers, and TOL is taken
\* as 2 so that a violation can lie below it (1), at it (2) and above it.
TOL == 2

\* the rows of the instances the metrics are evaluated on: at most
\* MaxMetricRows rows over one variable, bounds and x of size at most MaxAbs
MaxMetricRows == 2
MaxAbs == 2

\* exact fractions <<numerator, denominator>>, denominator > 0
RECURSIVE Gcd(_, _)
Gcd(a, b) == IF b = 0 THEN a ELSE Gcd(b, a % b)
Frac(a, b) == LET g == Gcd(Abs(a), b) IN <<a \div g, b \div g>>
FAdd(p, q) == Frac(p[1] * q[2] + q[1] * p[2], p[2] * q[2])
FMul(p, q) == Frac(p[1] * q[1], p[2] * q[2])

RECURSIVE FSum(_, _)
FSum(f, k) == IF k = 0 THEN <<0, 1>> ELSE FAdd(f[k], FSum(f, k - 1))

\* spa.linalg.norm of a row whose sum of squares is a perfect square
RowNorm(row) ==
    LET s == Dot(row, row) IN CHOOSE r \in 0..s : r * r = s

\* np.where(v): the 0-based positions of the nonzero entries of v
RECURSIVE np_nonzero(_, _)
np_nonzero(v, k) ==
    IF k > Len(v) THEN <<>>
    ELSE (IF v[k] # 0 THEN <<k - 1>> ELSE <<>>) \o np_nonzero(v, k + 1)

MetricRaise(op, error) ==
    [op |-> op, kind |-> "raise", error |-> error, x |-> <<>>,
     eq |-> {}, ineq |-> {}, sq |-> <<0, 1>>]

\* lines 24-27.  np.where(self.u - self.l) is the 1-tuple holding the array
\* of the positions where u - l is nonzero, and line 25 compares that tuple
\* with TOL: tuple <= float is not defined and raises TypeError.  (With TOL a
\* numpy scalar the comparison yields a 2-D boolean array, and set(eq) on
\* line 26 raises TypeError as its rows are not hashable.)
eq_ineq(d) ==
    LET n_con == Len(d.l)
        where == <<np_nonzero([k \in 1..n_con |-> d.u[k] - d.l[k]], 1)>>
    IN  MetricRaise("eq_ineq", "TypeError")

\* upper[i] / lower[i] after lines 52-61: the violation of the bound, divided
\* by max(norm_A[i], |bound|) when it is at least TOL
Normalized(violation, norm, bound) ==
    IF violation >= TOL THEN Frac(violation, Max(norm, Abs(bound)))
    ELSE <<violation, 1>>

\* infeasibility with a mutation: a violation below TOL counts as none
infeasibility_thresholded(d, xv) ==
    LET m == NRow(d)
        v == [k \in 1..m |->
                FAdd(IF Max(Dot(d.A[k], xv) - d.u[k], 0) >= TOL
                     THEN Normalized(Max(Dot(d.A[k], xv) - d.u[k], 0),
                                     RowNorm(d.A[k]), d.u[k])
                     ELSE <<0, 1>>,
                     IF Max(d.l[k] - Dot(d.A[k], xv), 0) >= TOL
                     THEN Normalized(Max(d.l[k] - Dot(d.A[k], xv), 0),
                                     RowNorm(d.A[k]), d.l[k])
                     ELSE <<0, 1>>)]
    IN  [op |-> "infeasibility", kind |-> "return", error |-> "", x |-> xv,
         eq |-> {}, ineq |-> {},
         sq |-> FSum([k \in 1..m |-> FMul(v[k], v[k])], m)]

\* lines 48-63.  The Euclidean norm returned on line 63 is kept as its
\* square sq, an exact fraction: the norm is >= 0, and it is 0 exactly when
\* sq is.
infeasibility(d, xv) ==
    LET m == NRow(d)
        norm_A == [k \in 1..m |-> RowNorm(d.A[k])]
        upper0 == [k \in 1..m |-> Max(Dot(d.A[k], xv) - d.u[k], 0)]
        lower0 == [k \in 1..m |-> Max(d.l[k] - Dot(d.A[k], xv), 0)]
        upper == [k \in 1..m |-> Normalized(upper0[k], norm_A[k], d.u[k])]
        lower == [k \in 1..m |-> Normalized(lower0[k], norm_A[k], d.l[k])]
        v == [k \in 1..m |-> FAdd(upper[k], lower[k])]
    IN  [op |-> "infeasibility", kind |-> "return", error |-> "", x |-> xv,
         eq |-> {}, ineq |-> {},
         sq |-> FSum([k \in 1..m |-> FMul(v[k], v[k])], m)]

\* the instances the metrics are evaluated on; l > u is not excluded, as
\* nothing in ProblemData excludes it
MetricVals == (-MaxAbs)..MaxAbs
MetricInstances ==
    UNION {
        {ProblemData(<<1>>, l, [k \in 1..m |-> <<a[k]>>], u, <<>>) :
            l \in [1..m -> {-1, 0, MaxAbs + 1}],
            u \in [1..m -> {0, MaxAbs + 1}],
            a \in [1..m -> {-1, 0, 2}]}
        : m \in 1..MaxMetricRows}

InitMetrics ==
    /\ data \in MetricInstances
    /\ out = NoOut
    /\ sws = NoSws
    /\ par = NoPar
    /\ metric = NoMetric

\* problem.data.eq_ineq()
EqIneq ==
    /\ metric' = eq_ineq(data)
    /\ UNCHANGED <<data, out, sws, par>>

\* problem.infeasibility(x)
Infeasibility ==
    /\ \E xv \in [1..NVar(data) -> MetricVals] : metric' = infeasibility(data, xv)
    /\ UNCHANGED <<data, out, sws, par>>

NextMetrics == EqIneq \/ Infeasibility

SpecMetrics == InitMetrics /\ [][NextMetrics]_vars

----------------------------------------------------------------------------
(* Claims about the metrics *)

\* C9: eq_ineq returns two disjoint sets of row indices whose union is
\* {0, ..., m-1}, row i being in the equality set iff u[i] - l[i] <= TOL.
C9_EqIneqPartition ==
    metric.op = "eq_ineq" =>
        /\ metric.kind = "return"
        /\ metric.eq \cap metric.ineq = {}
        /\ metric.eq \cup metric.ineq = 0..(NRow(data) - 1)
        /\ \A k \in 0..(NRow(data) - 1) :
              k \in metric.eq <=> data.u[k + 1] - data.l[k + 1] <= TOL

\* the violations of row k at xv
UpperViolation(d, xv, k) == Max(Dot(d.A[k], xv) - d.u[k], 0)
LowerViolation(d, xv, k) == Max(d.l[k] - Dot(d.A[k], xv), 0)

----------------------------------------------------------------------------
(* Claims about solve *)

\* C2: every strategy solve returns has one activity entry per row of the
\* instance (m of them, also on a mixed-integer instance) and one integer
\* value per index of int_idx, the solved values at int_idx in that order.
C2_StrategyShape ==
    out.kind = "return" =>
        /\ Len(out.strategy.active_constraints) = NRow(out.data)
        /\ Len(out.strategy.int_vars) = Len(out.data.int_idx)
        /\ out.strategy.int_vars = Take(out.x, out.data.int_idx)

\* C3: solve returns only if every adapter call it made reported a status
\* of the solution-present set.
C3_ReturnsOnlyWhenAllSolved ==
    out.kind = "return" =>
        \A k \in 1..Len(out.calls) :
            out.calls[k].results.status \in SOLUTION_PRESENT

\* C4: the x and time solve returns are those the adapter reported for the
\* original instance; the solve of the continuous restriction gives only
\* the strategy's active_constraints.
C4_ReturnsOriginalResult ==
    out.kind = "return" =>
        /\ out.calls[1].data = out.data
        /\ out.x = out.calls[1].results.x
        /\ out.time = out.calls[1].results.run_time
        /\ is_mip(out.data) =>
              /\ Len(out.calls) = 2
              /\ out.strategy.active_constraints =
                    out.calls[2].results.active_constraints

\* C4's case: a mixed-integer solve whose restriction was solved to another
\* vector in another time
C4_Witness ==
    /\ out.kind = "return"
    /\ is_mip(out.data)
    /\ Len(out.calls) = 2
    /\ out.calls[2].results.status \in SOLUTION_PRESENT
    /\ out.calls[2].results.x # out.x
    /\ out.calls[2].results.run_time # out.time

----------------------------------------------------------------------------
(* Claims about solve_with_strategy *)

\* the call of solve_with_strategy held in sws re-solved, on the unchanged
\* instance, the strategy the solve held in out returned
RoundTrip ==
    /\ sws.kind # "none"
    /\ out.kind = "return"
    /\ sws.strategy = out.strategy
    /\ sws.data = out.data

\* C1: re-solving the instance with the strategy solve returned for it
\* returns the solution solve returned.
C1_RoundTrip ==
    RoundTrip => (sws.kind = "return" /\ sws.x = out.x)

\* all entries of the strategy's int_vars lie in [0, n)
IntVarsInRange(d, strategy) ==
    \A k \in 1..Len(strategy.int_vars) :
        strategy.int_vars[k] \in 0..(NVar(d) - 1)

\* C6: on a mixed-integer instance the reduced problem starts with one row
\* per index of int_idx, row k selecting variable int_idx[k] with
\* strategy.int_vars[k] as lower and upper bound.
C6_IntegerFixingRows ==
    (sws.kind # "none" /\ is_mip(sws.data) /\ IntVarsInRange(sws.data, sws.strategy)) =>
        /\ sws.handed
        /\ Len(sws.problem.A) >= Len(sws.data.int_idx)
        /\ \A k \in 1..Len(sws.data.int_idx) :
              /\ sws.problem.A[k] = EyeRow(NVar(sws.data), sws.data.int_idx[k])
              /\ sws.problem.l[k] = sws.strategy.int_vars[k]
              /\ sws.problem.u[k] = sws.strategy.int_vars[k]

\* C7: the problem solve_with_strategy hands to the solver has the cost c,
\* no integer indices, equal lower and upper bounds, the rows A_i with bound
\* l_i of the rows marked -1, then the rows A_i with bound u_i of the rows
\* marked +1, no other row, and as many bounds as rows.  (Stated on
\* continuous instances, where no integer-fixing row comes first.)
C7_ReducedProblem ==
    (sws.kind # "none" /\ ~is_mip(sws.data)) =>
        LET d == sws.data
            lower == np_where(sws.strategy.active_constraints, -1, 1)
            upper == np_where(sws.strategy.active_constraints, 1, 1)
        IN  /\ sws.handed
            /\ sws.problem.c = d.c
            /\ sws.problem.int_idx = <<>>
            /\ sws.problem.l = sws.problem.u
            /\ sws.problem.A = Take(d.A, lower) \o Take(d.A, upper)
            /\ sws.problem.l = Take(d.l, lower) \o Take(d.u, upper)
            /\ Len(sws.problem.l) = Len(sws.problem.A)

\* C8: on a mixed-integer instance solve_with_strategy fails its validation
\* exactly when some entry of strategy.int_vars lies outside [0, n).
C8_Validation ==
    (sws.kind # "none" /\ is_mip(sws.data)) =>
        ((sws.error = "AssertionError") <=> ~IntVarsInRange(sws.data, sws.strategy))

----------------------------------------------------------------------------
(* Claims about solve_parametric *)

\* C5: when no solve fails, solve_parametric returns three lists of length
\* n = len(theta); entry i of each is the result of the one solve that ran on
\* the instance populated from row i.
C5_Parametric ==
    par.pc = "returned" =>
        /\ par.n = Len(par.theta)
        /\ Len(par.x) = par.n
        /\ Len(par.time) = par.n
        /\ Len(par.strategy) = par.n
        /\ Len(par.log) = par.n
        /\ \A k \in 1..par.n :
              /\ par.log[k].kind = "return"
              /\ par.log[k].data = populate(data, par.theta[k])
              /\ par.x[k] = par.log[k].x
              /\ par.time[k] = par.log[k].time
              /\ par.strategy[k] = par.log[k].strategy

\* C5's case: a table of two different rows solved to two different results
C5_Witness ==
    /\ par.pc = "returned"
    /\ par.n >= 2
    /\ par.theta[1] # par.theta[2]
    /\ par.x[1] # par.x[2]
    /\ par.strategy[1] # par.strategy[2]

====
